---- MODULE Spec2Model ----
(***************************************************************************)
(* Authentication and user management of the "API Fechas Bloqueo" service  *)
(* (src/auth.py, src/main.py, src/create_users.py).                        *)
(*                                                                         *)
(* The state is the usuarios table, the clock, the set of tokens the       *)
(* service has signed, and the requests in flight.  FastAPI runs the       *)
(* verify_token dependency and the endpoint body of every request in a     *)
(* thread pool, each on a database connection of its own, so requests      *)
(* interleave at the boundaries of their SQL statements.  One action is    *)
(* one such atomic piece: a dependency call, a statement, a commit.        *)
(* A single-statement transaction (UPDATE or DELETE or INSERT, then        *)
(* commit) is one action: between its statement and its commit the row is  *)
(* locked and the change invisible, so no other request can tell the two   *)
(* apart.  The password change, which reads, then writes, then commits,    *)
(* is three actions.  The script create_users.py is one transaction of    *)
(* three INSERT ... ON CONFLICT DO NOTHING statements and a commit: four   *)
(* actions, each INSERT reading the table as committed at its own start,   *)
(* its rows invisible to the requests until the commit.                    *)
(*                                                                         *)
(* pwd_context.hash salts every digest at random.  A digest is the         *)
(* plaintext with its salt, and the salt of the n-th digest the service    *)
(* stores or sends to the database is n: no two of them are equal, as no   *)
(* two digests under random salts are.                                     *)
(*                                                                         *)
(* ultimo_acceso is the CURRENT_TIMESTAMP of the database server and exp   *)
(* is read from utcnow() of the application: two clocks, now and db_now.   *)
(*                                                                         *)
(* A password is written as the body of its JSON string in the request:    *)
(* the character U+0000 is the escape \u0000.  The passwords of the model  *)
(* hold no other escape and no character outside ASCII, so a character is  *)
(* a byte.  passlib refuses a password that holds U+0000 or is longer than *)
(* 4096 characters with a ValueError; the bcrypt backend is one passlib    *)
(* works with, which reads the first 72 bytes of a password.               *)
(*                                                                         *)
(* The database is taken to be reachable: the except branches that turn a  *)
(* connection failure into None or into an error body are not modelled.    *)
(***************************************************************************)
EXTENDS Integers, FiniteSets, Sequences, TLC

(* ---------------------------------------------------------------- bounds *)
NumProcs == 2
MaxTokens == 2
MaxTicks == 2
MaxDbTicks == 1
MaxDigests == 5

(* ------------------------------------------------------------- constants *)
ACCESS_TOKEN_EXPIRE_MINUTES == 30
\* seconds of a token's life: timedelta(minutes=ACCESS_TOKEN_EXPIRE_MINUTES)
TTL == ACCESS_TOKEN_EXPIRE_MINUTES * 60
\* the clocks advance in steps of half an hour
TickStep == TTL

Procs == 1..NumProcs
Usernames == {"admin", "usuario", "manager"}
\* the usernames that requests name, as the login or as the path parameter
Clients == {"admin", "usuario"}
Passwords == {"admin123", "user456"}
\* a password the hasher refuses: "x" and U+0000
NulPassword == "x\\u0000"
\* the passwords that requests carry
Inputs == Passwords \cup {NulPassword}

VARIABLES usuarios, digests, now, db_now, tokens, revoked, orphaned, req, last, script
vars == <<usuarios, digests, now, db_now, tokens, revoked, orphaned, req, last, script>>

(* ------------------------------------------------------- password hasher *)
\* bcrypt reads the first 72 bytes of a password
BCRYPT_MAX_BYTES == 72
bcrypt_key(password) ==
    IF Len(password) > BCRYPT_MAX_BYTES THEN SubSeq(password, 1, BCRYPT_MAX_BYTES)
    ELSE password
\* passlib's limit on the size of a password
MAX_PASSWORD_SIZE == 4096
\* U+0000 in the body of a JSON string
NUL == "\\u0000"
HasNul(password) ==
    \E i \in 1..(Len(password) - Len(NUL) + 1) :
       SubSeq(password, i, i + Len(NUL) - 1) = NUL
\* the passwords for which pwd_context.hash and pwd_context.verify raise:
\* PasswordSizeError and PasswordValueError, both a ValueError
pwd_refused(password) == Len(password) > MAX_PASSWORD_SIZE \/ HasNul(password)
\* the bcrypt digest of a password under a salt
bcrypt_digest(password, salt) ==
    [alg |-> "bcrypt", of |-> bcrypt_key(password), salt |-> salt]
\* what hash returns in place of a digest when it raises
ValueError == [alg |-> "ValueError", of |-> "", salt |-> 0]
\* pwd_context.hash: the digest under a salt, or the ValueError
pwd_hash(password, salt) ==
    IF pwd_refused(password) THEN ValueError ELSE bcrypt_digest(password, salt)
\* pwd_context.verify: the ValueError, or the digest recomputed under the
\* salt of the stored one and compared with it
pwd_verify(password, hashed) ==
    IF pwd_refused(password) THEN "ValueError"
    ELSE IF hashed = bcrypt_digest(password, hashed.salt) THEN "True"
    ELSE "False"
\* the salt drawn for a new digest when `drawn` digests were drawn before;
\* 0 is the salt of no digest
FreshSalt(drawn) == drawn + 1

(* ------------------------------------------------------------ the table *)
\* column defaults of the usuarios table for an INSERT that names only
\* username, hashed_password and email
DefaultActivo == TRUE
NULL == -1
NewRow(password, salt) ==
    [hashed_password |-> pwd_hash(password, salt),
     activo          |-> DefaultActivo,
     ultimo_acceso   |-> NULL]

Exists(tbl, u) == u \in DOMAIN tbl
Remove(tbl, u) == [x \in DOMAIN tbl \ {u} |-> tbl[x]]
Insert(tbl, u, row) == [x \in DOMAIN tbl \cup {u} |-> IF x = u THEN row ELSE tbl[x]]
\* the table without rows
EmptyTable == [x \in {} |-> NewRow("", 0)]

\* the passwords of the three seeded users
SeedPassword(u) ==
    CASE u = "admin"   -> "admin123"
      [] u = "usuario" -> "user456"
      [] u = "manager" -> "manager789"
\* INSERT ... ON CONFLICT (username) DO NOTHING: the table and the number
\* of digests stored so far
InsertSeed(st, u) ==
    IF Exists(st.tbl, u)
    THEN st
    ELSE [tbl   |-> Insert(st.tbl, u, NewRow(SeedPassword(u), FreshSalt(st.drawn))),
          drawn |-> st.drawn + 1]
\* the usernames of the seeded users in the order of the script's loop
SeedOrder == <<"admin", "usuario", "manager">>
\* crear_usuarios_iniciales with no other transaction between its
\* statements: admin, usuario and manager, in this order, each inserted
\* unless a row has its username
crear_usuarios_iniciales(tbl, drawn) ==
    InsertSeed(InsertSeed(InsertSeed([tbl |-> tbl, drawn |-> drawn], "admin"), "usuario"),
               "manager")

\* get_user_from_db with the filter on activo left out of the query
get_user_from_db_unfiltered(tbl, username) ==
    IF username \in DOMAIN tbl
    THEN [found |-> TRUE, username |-> username,
          hashed_password |-> tbl[username].hashed_password]
    ELSE [found |-> FALSE, username |-> "", hashed_password |-> bcrypt_digest("", 0)]

\* SELECT ... WHERE username = %s AND activo = TRUE
get_user_from_db(tbl, username) ==
    IF Exists(tbl, username) /\ tbl[username].activo
    THEN [found |-> TRUE, username |-> username,
          hashed_password |-> tbl[username].hashed_password]
    ELSE [found |-> FALSE, username |-> "", hashed_password |-> bcrypt_digest("", 0)]

\* UPDATE usuarios SET ultimo_acceso = CURRENT_TIMESTAMP WHERE username = %s
update_last_access(tbl, username, t) ==
    IF Exists(tbl, username)
    THEN [tbl EXCEPT ![username].ultimo_acceso = t]
    ELSE tbl

(* --------------------------------------------------------------- tokens *)
NoToken   == [sub |-> "", exp |-> 0, sig |-> "none"]
Malformed == [sub |-> "", exp |-> 0, sig |-> "malformed"]

\* create_access_token with timedelta(seconds=...) for timedelta(minutes=...)
create_access_token_seconds(sub, t) ==
    [sub |-> sub, exp |-> t + ACCESS_TOKEN_EXPIRE_MINUTES, sig |-> "HS256"]

\* jwt.encode of {"sub": ..., "exp": utcnow + 30 min} under SECRET_KEY
create_access_token(sub, t) == [sub |-> sub, exp |-> t + TTL, sig |-> "HS256"]

\* jwt.decode with the exp claim not validated
jwt_decode_noexp(tok, t) ==
    IF tok.sig # "HS256" THEN [ok |-> FALSE, err |-> "JWTError", sub |-> ""]
    ELSE [ok |-> TRUE, err |-> "", sub |-> tok.sub]

\* jwt.decode: structure, then signature, then the exp claim
jwt_decode(tok, t) ==
    IF tok.sig = "malformed" THEN [ok |-> FALSE, err |-> "JWTError", sub |-> ""]
    ELSE IF tok.sig # "HS256" THEN [ok |-> FALSE, err |-> "JWTError", sub |-> ""]
    ELSE IF t > tok.exp THEN [ok |-> FALSE, err |-> "ExpiredSignatureError", sub |-> ""]
    ELSE [ok |-> TRUE, err |-> "", sub |-> tok.sub]

\* an HTTP response: the status code, the "status" member of a JSON body the
\* endpoint returned itself ("" when FastAPI built the body from an
\* HTTPException) and the message
Response(status, body, detail) == [status |-> status, body |-> body, detail |-> detail]
\* raise HTTPException(status_code, detail) where no handler catches it
Raise(status, detail) == Response(status, "", detail)
\* return {"status": "success", "message": ...}
Success(detail) == Response(200, "success", detail)
\* an exception raised inside an endpoint's try block: `except Exception`
\* catches it (HTTPException included) and returns {"status": "error",
\* "message": str(e)}, which FastAPI sends with status 200
Caught(detail) == Response(200, "error", detail)

\* verify_token that also wants the row to have logged in, that is, to be
\* no younger than the token
verify_token_row_age(tbl, t, tok) ==
    LET payload == jwt_decode(tok, t) IN
    IF ~payload.ok \/ payload.sub = ""
    THEN [ok |-> FALSE, username |-> "", resp |-> Raise(401, "Token invalido")]
    ELSE IF ~get_user_from_db(tbl, payload.sub).found
            \/ tbl[payload.sub].ultimo_acceso = NULL
    THEN [ok |-> FALSE, username |-> "", resp |-> Raise(401, "Usuario no valido")]
    ELSE [ok |-> TRUE, username |-> payload.sub, resp |-> Success("")]

\* the dependency of every protected endpoint: the username, or a 401
verify_token(tbl, t, tok) ==
    LET payload == jwt_decode(tok, t) IN
    IF ~payload.ok
    THEN [ok |-> FALSE, username |-> "", resp |-> Raise(401, "Token invalido")]
    ELSE IF payload.sub = ""
    THEN [ok |-> FALSE, username |-> "", resp |-> Raise(401, "Token invalido")]
    ELSE IF ~get_user_from_db(tbl, payload.sub).found
    THEN [ok |-> FALSE, username |-> "", resp |-> Raise(401, "Usuario no valido")]
    ELSE [ok |-> TRUE, username |-> payload.sub, resp |-> Success("")]

\* tokens a client can present without having been given them
Forged == {Malformed} \cup
          {[sub |-> u, exp |-> (MaxTicks + 2) * TickStep + TTL, sig |-> "forged"] : u \in Clients}

(* ------------------------------------------------------ requests in flight *)
NoHash == bcrypt_digest("", 0)
\* a worker: where it is in its request (pc), the identity verify_token
\* returned or the row authenticate_user fetched (user), the token the
\* request carried (tok), the path parameter of a password change (target)
\* and its hash: the one read by the SELECT, then the one the UPDATE wrote
Idle == [pc |-> "idle", user |-> "", target |-> "", hash |-> NoHash, tok |-> NoToken]
\* a write to the row of u waits while a password change holds its lock
Locked(u) == \E q \in Procs : req[q].pc = "pwlocked" /\ req[q].target = u

\* the script: the statements of its loop that it has executed in the
\* transaction it has open, and the rows they inserted
NotRunning == [done |-> 0, rows |-> EmptyTable]
\* an INSERT of username u waits while the script holds an uncommitted row
\* of that username
Held(u) == u \in DOMAIN script.rows
\* a table with uncommitted rows of other usernames added
Merge(tbl, rows) ==
    [x \in DOMAIN tbl \cup DOMAIN rows |-> IF x \in DOMAIN tbl THEN tbl[x] ELSE rows[x]]

\* digests stored so far plus the password changes that are about to
\* store one
Reserved == digests + Cardinality({q \in Procs : req[q].pc = "pwcheck"})

\* the response sent last, with the request it answers
Done(op, user, target, resp, tok) ==
    [op |-> op, user |-> user, target |-> target, status |-> resp.status,
     body |-> resp.body, detail |-> resp.detail, tok |-> tok]

Finish(p, op, target, resp) ==
    /\ req' = [req EXCEPT ![p] = Idle]
    /\ last' = Done(op, req[p].user, target, resp, req[p].tok)

Init ==
    /\ usuarios = crear_usuarios_iniciales(EmptyTable, 0).tbl
    /\ digests = crear_usuarios_iniciales(EmptyTable, 0).drawn
    /\ now = 0
    /\ db_now = 0
    /\ tokens = {}
    /\ revoked = {}
    /\ orphaned = {}
    /\ req = [p \in Procs |-> Idle]
    /\ last = Done("none", "", "", Response(0, "", ""), NoToken)
    /\ script = NotRunning

\* the clock of the application: datetime.utcnow()
Tick ==
    /\ now < MaxTicks * TickStep
    /\ now' = now + TickStep
    /\ UNCHANGED <<usuarios, digests, db_now, tokens, revoked, orphaned, req, last, script>>

\* the clock of the database server: CURRENT_TIMESTAMP
TickDb ==
    /\ db_now < MaxDbTicks * TickStep
    /\ db_now' = db_now + TickStep
    /\ UNCHANGED <<usuarios, digests, now, tokens, revoked, orphaned, req, last, script>>

\* python create_users.py, one statement of its loop: the INSERT of the
\* next seeded user.  It reads the table as committed now, with the rows
\* the script inserted before; it waits for the transaction that holds
\* the row it conflicts with; the row it inserts is visible to no other
\* transaction until the script commits
create_users_insert ==
    /\ script.done < Len(SeedOrder)
    /\ LET u  == SeedOrder[script.done + 1]
           st == InsertSeed([tbl |-> Merge(usuarios, script.rows), drawn |-> digests], u)
       IN  /\ ~Locked(u)
           /\ Reserved + (st.drawn - digests) <= MaxDigests
           /\ digests' = st.drawn
           /\ script' = [done |-> script.done + 1,
                         rows |-> [x \in DOMAIN st.tbl \ DOMAIN usuarios |-> st.tbl[x]]]
    /\ UNCHANGED <<usuarios, now, db_now, tokens, revoked, orphaned, req, last>>

\* python create_users.py: conn.commit() after the loop
create_users_commit ==
    /\ script.done = Len(SeedOrder)
    /\ usuarios' = Merge(usuarios, script.rows)
    /\ script' = NotRunning
    /\ UNCHANGED <<digests, now, db_now, tokens, revoked, orphaned, req, last>>

(* ------------------------------------------------------------ POST /login *)
\* authenticate_user: False, or the row, or the ValueError of
\* pwd_context.verify, which it does not catch; with the table it leaves
authenticate_user(tbl, t, username, password) ==
    LET user == get_user_from_db(tbl, username) IN
    IF ~user.found
    THEN [found |-> FALSE, raised |-> FALSE, username |-> "", tbl |-> tbl]
    ELSE IF pwd_verify(password, user.hashed_password) = "ValueError"
    THEN [found |-> FALSE, raised |-> TRUE, username |-> "", tbl |-> tbl]
    ELSE IF pwd_verify(password, user.hashed_password) = "False"
    THEN [found |-> FALSE, raised |-> FALSE, username |-> "", tbl |-> tbl]
    ELSE [found |-> TRUE, raised |-> FALSE, username |-> user.username,
          tbl |-> update_last_access(tbl, username, t)]

\* the response of login when authenticate_user returned False
login_failed == Raise(401, "Credenciales incorrectas")
\* the response to a request whose endpoint raised an exception that is
\* not an HTTPException
server_error == Raise(500, "Internal Server Error")

\* tokens signed so far plus the logins that are about to sign one
Pending == Cardinality(tokens)
           + Cardinality({q \in Procs : req[q].pc \in {"login", "token"}})

\* login, up to the row authenticate_user fetched and checked; the UPDATE
\* of ultimo_acceso that follows a passed check is the step LoginTouch
LoginAuth(p, username, password) ==
    /\ req[p].pc = "idle"
    /\ LET user == authenticate_user(usuarios, db_now, username, password) IN
       IF user.raised
       THEN /\ usuarios' = user.tbl
            /\ last' = Done("login", "", username, server_error, NoToken)
            /\ UNCHANGED req
       ELSE IF ~user.found
       THEN /\ usuarios' = user.tbl
            /\ last' = Done("login", "", username, login_failed, NoToken)
            /\ UNCHANGED req
       ELSE /\ Pending < MaxTokens
            /\ req' = [req EXCEPT ![p] = [Idle EXCEPT !.pc = "login", !.user = user.username]]
            /\ UNCHANGED <<usuarios, last>>
    /\ UNCHANGED <<digests, now, db_now, tokens, revoked, orphaned, script>>

\* authenticate_user, its call of update_last_access: the UPDATE and its
\* commit, on a connection of its own
LoginTouch(p) ==
    /\ req[p].pc = "login"
    /\ ~Locked(req[p].user)
    /\ usuarios' = update_last_access(usuarios, req[p].user, db_now)
    /\ req' = [req EXCEPT ![p].pc = "token"]
    /\ UNCHANGED <<digests, now, db_now, tokens, revoked, orphaned, last, script>>

\* login, from create_access_token to the response that carries the token
LoginToken(p) ==
    /\ req[p].pc = "token"
    /\ LET access_token == create_access_token(req[p].user, now) IN
       /\ tokens' = tokens \cup {access_token}
       /\ last' = Done("login", req[p].user, req[p].user, Success("bearer"),
                       access_token)
    /\ req' = [req EXCEPT ![p] = Idle]
    /\ UNCHANGED <<usuarios, digests, now, db_now, revoked, orphaned, script>>

(* -------------------------------------------- Depends(verify_token) *)
Verify(p, tok) ==
    /\ req[p].pc = "idle"
    /\ LET r == verify_token(usuarios, now, tok) IN
       IF r.ok
       THEN /\ req' = [req EXCEPT ![p] = [Idle EXCEPT !.pc = "authed", !.user = r.username,
                                                     !.tok = tok]]
            /\ UNCHANGED last
       ELSE /\ last' = Done("verify", "", "", r.resp, tok)
            /\ UNCHANGED req
    /\ UNCHANGED <<usuarios, digests, now, db_now, tokens, revoked, orphaned, script>>

(* ------------------------------------------------- GET /fechas-bloqueo *)
obtener_fechas_bloqueo(p) ==
    /\ req[p].pc = "authed"
    /\ Finish(p, "fechas", "", Success("fechas_bloqueo"))
    /\ UNCHANGED <<usuarios, digests, now, db_now, tokens, revoked, orphaned, script>>

(* ------------------------------------------------------ POST /usuarios *)
crear_usuario_do(tbl, current_user, username, password, salt) ==
    IF current_user # "admin"
    THEN [tbl |-> tbl, resp |-> Raise(403, "No tienes permisos para crear usuarios")]
    ELSE IF pwd_hash(password, salt) = ValueError
    THEN [tbl |-> tbl, resp |-> Caught("ValueError")]
    ELSE IF Exists(tbl, username)
    THEN [tbl |-> tbl, resp |-> Caught("UniqueViolation")]
    ELSE [tbl |-> Insert(tbl, username, NewRow(password, salt)), resp |-> Success("created")]

\* the 403 and the ValueError of pwd_context.hash are raised before any
\* statement; the INSERT waits for the transaction that holds a row of
\* its username
crear_usuario(p, username, password) ==
    /\ req[p].pc = "authed"
    /\ (req[p].user = "admin" /\ ~pwd_refused(password)) =>
          (~Locked(username) /\ ~Held(username))
    /\ LET r == crear_usuario_do(usuarios, req[p].user, username, password,
                                 FreshSalt(digests)) IN
       /\ usuarios' = r.tbl
       /\ digests' = IF r.tbl = usuarios THEN digests ELSE digests + 1
       /\ Reserved + (digests' - digests) <= MaxDigests
       /\ Finish(p, "crear", username, r.resp)
    /\ UNCHANGED <<now, db_now, tokens, revoked, orphaned, script>>

(* ------------------------------------------------------- GET /usuarios *)
listar_usuarios_do(tbl, current_user) ==
    IF current_user # "admin"
    THEN [tbl |-> tbl, resp |-> Raise(403, "No tienes permisos para ver usuarios")]
    ELSE [tbl |-> tbl, resp |-> Success("usuarios")]

listar_usuarios(p) ==
    /\ req[p].pc = "authed"
    /\ LET r == listar_usuarios_do(usuarios, req[p].user) IN
       /\ usuarios' = r.tbl
       /\ Finish(p, "listar", "", r.resp)
    /\ UNCHANGED <<digests, now, db_now, tokens, revoked, orphaned, script>>

(* --------------------------------------- PUT /usuarios/{username}/estado *)
\* cambiar_estado_usuario that lets a user change their own estado
cambiar_estado_usuario_do_self(tbl, current_user, username, activo) ==
    IF current_user # "admin" /\ current_user # username
    THEN [tbl |-> tbl,
          resp |-> Raise(403, "No tienes permisos para cambiar el estado de usuarios")]
    ELSE IF username = "admin" /\ ~activo
    THEN [tbl |-> tbl, resp |-> Raise(400, "No puedes desactivar el usuario admin")]
    ELSE IF ~Exists(tbl, username)
    THEN [tbl |-> tbl, resp |-> Caught("404: Usuario no encontrado")]
    ELSE [tbl |-> [tbl EXCEPT ![username].activo = activo],
          resp |-> Success(IF activo THEN "Usuario activado" ELSE "Usuario desactivado")]

cambiar_estado_usuario_do(tbl, current_user, username, activo) ==
    IF current_user # "admin"
    THEN [tbl |-> tbl,
          resp |-> Raise(403, "No tienes permisos para cambiar el estado de usuarios")]
    ELSE IF username = "admin" /\ ~activo
    THEN [tbl |-> tbl, resp |-> Raise(400, "No puedes desactivar el usuario admin")]
    ELSE IF ~Exists(tbl, username)
    THEN [tbl |-> tbl, resp |-> Caught("404: Usuario no encontrado")]
    ELSE [tbl |-> [tbl EXCEPT ![username].activo = activo],
          resp |-> Success(IF activo THEN "Usuario activado" ELSE "Usuario desactivado")]

\* the 403 and the 400 are raised before any statement; the UPDATE waits
\* for the row's lock
cambiar_estado_usuario(p, username, activo) ==
    /\ req[p].pc = "authed"
    /\ (req[p].user = "admin" /\ ~(username = "admin" /\ ~activo)) => ~Locked(username)
    /\ LET r == cambiar_estado_usuario_do(usuarios, req[p].user, username, activo) IN
       /\ usuarios' = r.tbl
       /\ Finish(p, "estado", username, r.resp)
       /\ revoked' = IF r.resp.body = "success" /\ ~activo
                     THEN revoked \cup {t \in tokens : t.sub = username}
                     ELSE revoked
    /\ UNCHANGED <<digests, now, db_now, tokens, orphaned, script>>

(* ------------------------------------------- DELETE /usuarios/{username} *)
\* eliminar_usuario without the check that protects admin
eliminar_usuario_do_unguarded(tbl, current_user, username) ==
    IF current_user # "admin"
    THEN [tbl |-> tbl, resp |-> Raise(403, "No tienes permisos para eliminar usuarios")]
    ELSE IF ~Exists(tbl, username)
    THEN [tbl |-> tbl, resp |-> Caught("404: Usuario no encontrado")]
    ELSE [tbl |-> Remove(tbl, username), resp |-> Success("Usuario eliminado")]

eliminar_usuario_do(tbl, current_user, username) ==
    IF current_user # "admin"
    THEN [tbl |-> tbl, resp |-> Raise(403, "No tienes permisos para eliminar usuarios")]
    ELSE IF username = "admin"
    THEN [tbl |-> tbl, resp |-> Raise(400, "No puedes eliminar el usuario admin")]
    ELSE IF ~Exists(tbl, username)
    THEN [tbl |-> tbl, resp |-> Caught("404: Usuario no encontrado")]
    ELSE [tbl |-> Remove(tbl, username), resp |-> Success("Usuario eliminado")]

\* the 403 and the 400 are raised before any statement; the DELETE waits
\* for the row's lock
eliminar_usuario(p, username) ==
    /\ req[p].pc = "authed"
    /\ (req[p].user = "admin" /\ username # "admin") => ~Locked(username)
    /\ LET r == eliminar_usuario_do(usuarios, req[p].user, username) IN
       /\ usuarios' = r.tbl
       /\ Finish(p, "eliminar", username, r.resp)
       /\ orphaned' = IF r.resp.body = "success"
                      THEN orphaned \cup {t \in tokens : t.sub = username}
                      ELSE orphaned
    /\ UNCHANGED <<digests, now, db_now, tokens, revoked, script>>

(* ------------------------------------- PUT /usuarios/{username}/password *)
\* cambiar_password without the permission check: whoever knows the
\* current password of the target passes
cambiar_password_check_open(tbl, current_user, username, password_actual) ==
    IF current_user # "admin"
    THEN IF ~Exists(tbl, username)
         THEN [go |-> FALSE, seen |-> NoHash,
               resp |-> Caught("400: Contrasena actual incorrecta")]
         ELSE IF pwd_verify(password_actual, tbl[username].hashed_password) = "ValueError"
         THEN [go |-> FALSE, seen |-> NoHash, resp |-> Caught("ValueError")]
         ELSE IF pwd_verify(password_actual, tbl[username].hashed_password) = "False"
         THEN [go |-> FALSE, seen |-> NoHash,
               resp |-> Caught("400: Contrasena actual incorrecta")]
         ELSE [go |-> TRUE, seen |-> tbl[username].hashed_password, resp |-> Success("")]
    ELSE [go |-> TRUE, seen |-> NoHash, resp |-> Success("")]

\* the permission check and, for a caller who is not admin, the SELECT of
\* the stored hash and the comparison with password_actual
cambiar_password_check(tbl, current_user, username, password_actual) ==
    IF current_user # username /\ current_user # "admin"
    THEN [go |-> FALSE, seen |-> NoHash,
          resp |-> Raise(403, "No tienes permisos para cambiar esta contrasena")]
    ELSE IF current_user # "admin"
    THEN IF ~Exists(tbl, username)
         THEN [go |-> FALSE, seen |-> NoHash,
               resp |-> Caught("400: Contrasena actual incorrecta")]
         ELSE IF pwd_verify(password_actual, tbl[username].hashed_password) = "ValueError"
         THEN [go |-> FALSE, seen |-> NoHash, resp |-> Caught("ValueError")]
         ELSE IF pwd_verify(password_actual, tbl[username].hashed_password) = "False"
         THEN [go |-> FALSE, seen |-> NoHash,
               resp |-> Caught("400: Contrasena actual incorrecta")]
         ELSE [go |-> TRUE, seen |-> tbl[username].hashed_password, resp |-> Success("")]
    ELSE [go |-> TRUE, seen |-> NoHash, resp |-> Success("")]

cambiar_password(p, username, password_actual) ==
    /\ req[p].pc = "authed"
    /\ LET r == cambiar_password_check(usuarios, req[p].user, username, password_actual) IN
       IF r.go
       THEN /\ Reserved < MaxDigests
            /\ req' = [req EXCEPT ![p].pc = "pwcheck", ![p].target = username,
                                  ![p].hash = r.seen]
            /\ UNCHANGED last
       ELSE Finish(p, "password", username, r.resp)
    /\ UNCHANGED <<usuarios, digests, now, db_now, tokens, revoked, orphaned, script>>

\* pwd_context.hash of the new password, whose ValueError the endpoint
\* catches, and the UPDATE of hashed_password: it waits for the row's
\* lock, takes it, and finds rowcount = 0 when the row is gone
cambiar_password_update(p, password_nueva) ==
    /\ req[p].pc = "pwcheck"
    /\ ~pwd_refused(password_nueva) => ~Locked(req[p].target)
    /\ IF pwd_hash(password_nueva, FreshSalt(digests)) = ValueError
       THEN /\ Finish(p, "password", req[p].target, Caught("ValueError"))
            /\ UNCHANGED digests
       ELSE IF ~Exists(usuarios, req[p].target)
       THEN /\ Finish(p, "password", req[p].target, Caught("404: Usuario no encontrado"))
            /\ UNCHANGED digests
       ELSE /\ req' = [req EXCEPT ![p].pc = "pwlocked",
                                  ![p].hash = pwd_hash(password_nueva, FreshSalt(digests))]
            /\ digests' = digests + 1
            /\ UNCHANGED last
    /\ UNCHANGED <<usuarios, now, db_now, tokens, revoked, orphaned, script>>

\* the commit of an UPDATE ... WHERE username = current_user
cambiar_password_commit_caller(p) ==
    /\ req[p].pc = "pwlocked"
    /\ usuarios' = [usuarios EXCEPT ![req[p].user].hashed_password = req[p].hash]
    /\ req' = [req EXCEPT ![p] = Idle]
    /\ last' = Done("password", req[p].user, req[p].target,
                    Success("Contrasena actualizada"), req[p].tok)
    /\ UNCHANGED <<digests, now, db_now, tokens, revoked, orphaned, script>>

\* conn.commit(): the new hash becomes visible and the lock is released
cambiar_password_commit(p) ==
    /\ req[p].pc = "pwlocked"
    /\ usuarios' = [usuarios EXCEPT ![req[p].target].hashed_password = req[p].hash]
    /\ req' = [req EXCEPT ![p] = Idle]
    /\ last' = Done("password", req[p].user, req[p].target,
                    Success("Contrasena actualizada"), req[p].tok)
    /\ UNCHANGED <<digests, now, db_now, tokens, revoked, orphaned, script>>

\* one worker thread of the pool: the steps of the request it serves
Worker(p) ==
    \/ \E u \in Clients, pw \in Inputs : LoginAuth(p, u, pw)
    \/ LoginTouch(p)
    \/ LoginToken(p)
    \/ \E tok \in tokens \cup Forged : Verify(p, tok)
    \/ obtener_fechas_bloqueo(p)
    \/ \E u \in Clients, pw \in Inputs : crear_usuario(p, u, pw)
    \/ listar_usuarios(p)
    \/ \E u \in Clients, a \in BOOLEAN : cambiar_estado_usuario(p, u, a)
    \/ \E u \in Clients : eliminar_usuario(p, u)
    \/ \E u \in Clients, pw \in Inputs : cambiar_password(p, u, pw)
    \/ \E pw \in Inputs : cambiar_password_update(p, pw)
    \/ cambiar_password_commit(p)

\* the service with one request at a time, and the clocks
Next == Tick \/ TickDb \/ Worker(1)
Spec == Init /\ [][Next]_vars

\* the service with NumProcs requests at a time, at one instant of the
\* clocks
Concurrent == \E p \in Procs : Worker(p)
SpecConcurrent == Init /\ [][Concurrent]_vars

\* the service with one request at a time, the clock of the application,
\* and the script run beside it, statement by statement
Seeding == Tick \/ create_users_insert \/ create_users_commit \/ Worker(1)
SpecScript == Init /\ [][Seeding]_vars

(* ================================================================ claims *)
Active(tbl, u) == Exists(tbl, u) /\ tbl[u].activo
\* inputs the properties range over: every username of the table and one
\* that has no row, every password that requests carry, the one of
\* manager and one that is not in use
AnyName == Usernames \cup {"nadie"}
AnyPassword == Inputs \cup {"manager789", "otra"}
\* every token the service can sign within the clock's range
Issuable == {create_access_token(u, k * TickStep) : u \in Usernames, k \in 0..MaxTicks}
AdminOnly == {"crear", "listar", "estado", "eliminar"}
Protected == AdminOnly \cup {"fechas", "password"}

\* C1: a login of an active user with the matching password succeeds, and
\* the token it returns verifies as that user, and as nobody else, at every
\* instant up to its expiry while the user is active; every protected
\* operation runs under the subject of the token its request carried
C1_LoginThenVerify ==
    /\ \A U \in Usernames, P \in AnyPassword :
         (Active(usuarios, U) /\ pwd_verify(P, usuarios[U].hashed_password) = "True") =>
            LET a == authenticate_user(usuarios, db_now, U, P)
                access_token == create_access_token(a.username, now)
            IN  /\ a.found
                /\ \A t \in {now, now + 1, now + TickStep, now + TTL} :
                     LET v == verify_token(a.tbl, t, access_token)
                     IN  v.ok /\ v.username = U
    /\ \A tok \in tokens :
         (now <= tok.exp /\ Active(usuarios, tok.sub)) =>
            LET v == verify_token(usuarios, now, tok)
            IN  v.ok /\ v.username = tok.sub
    /\ (last.op = "login" /\ last.status = 200) =>
         (last.tok \in tokens /\ last.tok.sub = last.target /\ last.user = last.target)
    /\ last.op \in Protected => (last.tok \in tokens /\ last.user = last.tok.sub)

C1_Witness ==
    /\ last.op = "fechas" /\ last.status = 200
    /\ last.user = "usuario" /\ last.tok \in tokens
    /\ now = last.tok.exp

\* C2, the rejection: while the row of U is inactive, verify_token rejects
\* with 401 every token of U, whichever and however many the service has
\* signed, and no request is authenticated as U
C2_Rejected ==
    \A u \in Usernames :
      (Exists(usuarios, u) /\ ~usuarios[u].activo) =>
         /\ \A tok \in {x \in tokens \cup Issuable : x.sub = u} :
              LET v == verify_token(usuarios, now, tok)
              IN  ~v.ok /\ v.resp.status = 401
         /\ (last.op = "verify" /\ last.tok.sub = u) => last.status = 401
C2_NoAdmission ==
    [][\A p \in Procs :
         (req[p].pc = "idle" /\ req'[p].pc = "authed") => Active(usuarios, req'[p].user)]_vars
\* C2 as amended: both of the above, in every behaviour
C2_Revocation == []C2_Rejected /\ C2_NoAdmission

C2_Witness ==
    /\ last.op = "verify" /\ last.status = 401 /\ last.detail = "Usuario no valido"
    /\ last.tok \in revoked
    /\ Exists(usuarios, last.tok.sub) /\ ~usuarios[last.tok.sub].activo

\* C2 as stated: after the deactivation of U every token of U is rejected
\* and no protected operation executes under identity U while U is inactive
C2_Original ==
    \A u \in Usernames :
      (Exists(usuarios, u) /\ ~usuarios[u].activo) =>
         /\ \A tok \in {x \in revoked : x.sub = u} : ~verify_token(usuarios, now, tok).ok
         /\ ~(last.op \in Protected /\ last.user = u /\ last.tok \in revoked)

\* C3: the row of admin exists and is active in every state, and no
\* request of any caller, admin included, and no run of the script leaves
\* a table without it
C3_AdminProtected ==
    /\ Active(usuarios, "admin")
    /\ Active(crear_usuarios_iniciales(usuarios, digests).tbl, "admin")
    /\ \A c \in AnyName, u \in AnyName :
         /\ Active(eliminar_usuario_do(usuarios, c, u).tbl, "admin")
         /\ \A a \in BOOLEAN : Active(cambiar_estado_usuario_do(usuarios, c, u, a).tbl, "admin")
         /\ \A pw \in AnyPassword : Active(crear_usuario_do(usuarios, c, u, pw, FreshSalt(digests)).tbl, "admin")

C3_Witness ==
    /\ last.op = "eliminar" /\ last.user = "admin" /\ last.target = "admin"
    /\ last.status = 400
    /\ Active(usuarios, "admin")

\* C4: every admin-only operation answers a caller other than admin with
\* 403 and leaves the table as it was; one that succeeded was admin's
C4_AdminOnly ==
    /\ \A c \in AnyName \ {"admin"}, u \in AnyName :
         /\ eliminar_usuario_do(usuarios, c, u).resp.status = 403
         /\ eliminar_usuario_do(usuarios, c, u).tbl = usuarios
         /\ listar_usuarios_do(usuarios, c).resp.status = 403
         /\ listar_usuarios_do(usuarios, c).tbl = usuarios
         /\ \A a \in BOOLEAN :
              /\ cambiar_estado_usuario_do(usuarios, c, u, a).resp.status = 403
              /\ cambiar_estado_usuario_do(usuarios, c, u, a).tbl = usuarios
         /\ \A pw \in AnyPassword :
              /\ crear_usuario_do(usuarios, c, u, pw, FreshSalt(digests)).resp.status = 403
              /\ crear_usuario_do(usuarios, c, u, pw, FreshSalt(digests)).tbl = usuarios
    /\ (last.op \in AdminOnly /\ last.user # "admin") => last.status = 403
    /\ (last.op \in AdminOnly /\ last.body = "success") => last.user = "admin"

C4_Witness ==
    /\ last.op = "estado" /\ last.user = "usuario" /\ last.target = "admin"
    /\ last.status = 403

\* C5: the password change admits caller C for target T exactly when C = T
\* or C = admin, and answers any other caller with 403; a caller who is not
\* admin passes only with the stored password of T, admin passes without;
\* the stored hash of T changes only by a request of T or of admin
C5_Admission ==
    /\ \A C \in Usernames, T \in AnyName, pa \in AnyPassword :
         LET r == cambiar_password_check(usuarios, C, T, pa) IN
         /\ (r.resp.status = 403) <=> ~(C = T \/ C = "admin")
         /\ (r.resp.status = 403) => ~r.go
         /\ (C = "admin") => r.go
         /\ (C = T /\ C # "admin") =>
               (r.go <=> (Exists(usuarios, T)
                          /\ pwd_verify(pa, usuarios[T].hashed_password) = "True"))
    /\ \A p \in Procs :
         req[p].pc \in {"pwcheck", "pwlocked"} => req[p].user \in {req[p].target, "admin"}
    /\ last.op = "password" =>
         ((last.status = 403) <=> (last.user \notin {last.target, "admin"}))
C5_Writers ==
    [][\A T \in Usernames :
         (/\ Exists(usuarios, T) /\ Exists(usuarios', T)
          /\ usuarios'[T].hashed_password # usuarios[T].hashed_password) =>
            \E p \in Procs : /\ req[p].pc = "pwlocked" /\ req'[p].pc = "idle"
                             /\ req[p].target = T
                             /\ req[p].user \in {T, "admin"}]_vars
\* C5: the admission rule and the writers of a stored hash
C5_SelfOrAdmin == []C5_Admission /\ C5_Writers

C5_Witness ==
    /\ last.op = "password" /\ last.user = "usuario" /\ last.target = "admin"
    /\ last.status = 403
    /\ pwd_verify("admin123", usuarios["admin"].hashed_password) = "True"

\* C6: a password change by a user who is not admin, for themselves, with
\* a current password that does not match, is answered with status 400 and
\* leaves the table as it was
C6_WrongCurrentIs400 ==
    [][\A p \in Procs :
         (/\ req[p].pc = "authed" /\ req'[p].pc = "idle"
          /\ req[p].user # "admin"
          /\ last'.op = "password" /\ last'.target = req[p].user
          /\ last'.detail = "400: Contrasena actual incorrecta") =>
            (last'.status = 400 /\ usuarios' = usuarios)]_vars

\* C7: a login for a username without a row, for an inactive row with any
\* password, or for an active row with a password that does not match, is
\* answered with one and the same response, 401 with one message, carries
\* no token and leaves the table, ultimo_acceso included, as it was
C7_OneFailure ==
    /\ \A U \in AnyName, P \in AnyPassword :
         ~(Active(usuarios, U) /\ pwd_verify(P, usuarios[U].hashed_password) = "True") =>
            LET a == authenticate_user(usuarios, db_now, U, P)
            IN  ~a.found /\ ~a.raised /\ a.username = "" /\ a.tbl = usuarios
    /\ (last.op = "login" /\ last.status # 200) =>
          /\ Response(last.status, last.body, last.detail) = login_failed
          /\ login_failed = Raise(401, "Credenciales incorrectas")
          /\ last.tok = NoToken /\ last.user = ""
    /\ (last.op = "login" /\ last.status = 200) => last.tok # NoToken

\* C8, the rejection: at every instant later than its expiry verify_token
\* rejects a signed token with 401 "Token invalido", the response it also
\* gives to a bad signature and to a malformed token, even when the
\* subject is an active user
C8_Rejects ==
    /\ \A tok \in tokens : \A t \in {now, tok.exp + 1, tok.exp + TickStep} :
          t > tok.exp =>
             verify_token(usuarios, t, tok) =
                [ok |-> FALSE, username |-> "", resp |-> Raise(401, "Token invalido")]
    /\ \A f \in Forged : verify_token(usuarios, now, f).resp = Raise(401, "Token invalido")
    /\ (last.op = "verify" /\ last.tok \in tokens /\ last.detail = "Token invalido") =>
          (now > last.tok.exp /\ last.status = 401)
\* C8, the expiry: the token a login returns expires 30 minutes after the
\* instant create_access_token signed it, and a verification that rejects
\* a signed token of an active user rejects it as expired
C8_Issued ==
    /\ \A p \in Procs :
         (req[p].pc = "token" /\ req'[p].pc = "idle") =>
            /\ last'.op = "login" /\ last'.status = 200
            /\ last'.tok.exp = now + ACCESS_TOKEN_EXPIRE_MINUTES * 60
            /\ tokens' = tokens \cup {last'.tok}
    /\ (/\ last' # last /\ last'.op = "verify"
        /\ last'.tok \in tokens /\ Active(usuarios, last'.tok.sub)) =>
          (now > last'.tok.exp /\ last'.status = 401 /\ last'.detail = "Token invalido")
\* C8 as amended: the expiry and the rejection, in every behaviour
C8_Expiry == []C8_Rejects /\ [][C8_Issued]_vars

C8_Witness ==
    /\ last.op = "verify" /\ last.tok \in tokens
    /\ Active(usuarios, last.tok.sub)
    /\ now > last.tok.exp
    /\ last.status = 401 /\ last.detail = "Token invalido"

\* C8 as stated: the rejection of an expired token of an active user is of
\* a kind of its own, distinct from the rejection of a bad signature and
\* of a malformed token
C8_Original ==
    (/\ last.op = "verify" /\ last.tok \in tokens /\ Active(usuarios, last.tok.sub)
     /\ now > last.tok.exp) =>
       /\ last.status = 401
       /\ \A f \in Forged :
            Response(last.status, last.body, last.detail) # verify_token(usuarios, now, f).resp

\* the stored hash of a row changes only when a password change commits,
\* and then to the hash that request wrote
C9_AllOrNothing ==
    \A u \in Usernames :
      (/\ Exists(usuarios, u) /\ Exists(usuarios', u)
       /\ usuarios'[u].hashed_password # usuarios[u].hashed_password) =>
         \E p \in Procs : /\ req[p].pc = "pwlocked" /\ req'[p].pc = "idle"
                          /\ req[p].target = u
                          /\ usuarios'[u].hashed_password = req[p].hash
\* a commit leaves the hash of its own request in the row
C9_LastWriteWins ==
    \A p \in Procs :
      (req[p].pc = "pwlocked" /\ req'[p].pc = "idle") =>
         /\ Exists(usuarios', req[p].target)
         /\ usuarios'[req[p].target].hashed_password = req[p].hash
\* a request in flight can take its next step, or waits for a row lock
\* whose holder can commit
C9_NoWaitForever ==
    \A p \in Procs :
      req[p].pc # "idle" =>
         \/ ENABLED Worker(p)
         \/ \E q \in Procs : /\ req[q].pc = "pwlocked"
                             /\ req[q].target \in {req[p].target, req[p].user}
                             /\ ENABLED cambiar_password_commit(q)
\* the hash a caller's current password was checked against is the hash
\* the UPDATE of that request overwrites
C9_CheckAndWriteAtomic ==
    \A p \in Procs :
      (req[p].pc = "pwcheck" /\ req'[p].pc = "pwlocked" /\ req[p].user # "admin") =>
         usuarios[req[p].target].hashed_password = req[p].hash

\* C9 as amended: in every interleaving of password changes a write takes
\* effect whole, at its commit, or not at all; no request waits forever;
\* the stored password is that of the request that committed last.  The
\* check of the current password and the write are not one atomic step.
C9_Interleaving ==
    /\ [][C9_AllOrNothing /\ C9_LastWriteWins]_vars
    /\ []C9_NoWaitForever

C9_Witness ==
    \E p \in Procs, q \in Procs :
       /\ p # q
       /\ req[p].pc = "pwlocked" /\ req[q].pc = "pwcheck"
       /\ req[p].target = "usuario" /\ req[q].target = "usuario"
       /\ req[p].user = "usuario" /\ req[q].user = "usuario"
       /\ req[q].hash = usuarios["usuario"].hashed_password

\* C9 as stated: the same, and the check and the write of every request
\* take effect as one atomic step
C9_Original ==
    /\ [][C9_CheckAndWriteAtomic /\ C9_AllOrNothing /\ C9_LastWriteWins]_vars
    /\ []C9_NoWaitForever

\* C10: verify_token accepts a token exactly when its signature is good,
\* it has not expired and an active row has its username now, whatever
\* happened to that row since the token was signed: a token that outlived
\* a deactivation or a deletion of its subject is accepted, as that
\* username, once an active row of that name exists again
C10_NoHistory ==
    /\ \A tok \in tokens \cup Forged :
         LET v == verify_token(usuarios, now, tok) IN
         /\ v.ok <=> (tok.sig = "HS256" /\ now <= tok.exp /\ Active(usuarios, tok.sub))
         /\ v.ok => v.username = tok.sub
    /\ (last.op \in Protected /\ last.tok \in revoked \cup orphaned) =>
          last.user = last.tok.sub

C10_Witness ==
    /\ last.op = "fechas" /\ last.status = 200
    /\ last.tok \in revoked /\ last.tok \in orphaned
    /\ last.user = "usuario"
    /\ Active(usuarios, "usuario")
====
